---- MODULE Spec2Model ----
(***************************************************************************)
(* Model of led_control.c, a Linux character-device driver that drives     *)
(* Raspberry Pi GPIO pins through memory-mapped registers and accepts      *)
(* "<pin>:<action>" commands on its device node.                           *)
(*                                                                         *)
(* Texts are sequences of one-character strings.  A 32-bit register value *)
(* is the set of its bit positions (0..31) that hold 1, so 1 << 21 is      *)
(* {21}; the pin levels of bank 0 are the set of pins that are high.       *)
(***************************************************************************)
EXTENDS Integers, Sequences, FiniteSets, TLC

\* ------------------------------------------------------------------------
\* Program constants (led_control.c:15-24)
\* ------------------------------------------------------------------------
ERROR_MSG_SIZE == 256
GPIO_SET_OFFSET == 28
GPIO_CLR_OFFSET == 40
GPIO_PIN_21 == 21
GPIO_PIN_20 == 20
GPIO_PIN_16 == 16
\* the size of the local buffer of led_ctrl_dev_write, less its terminator
INPUT_MAX == 255
\* the field width of %9s in handle_input
ACTION_WIDTH == 9
\* the duration handle_input passes to gpio_blink, and the two msleep()s
BLINK_MS == 5000
SLEEP_MS == 50
\* the divisor of duration_ms in gpio_blink
CYCLE_MS == 100
\* errno values returned by the driver
EFAULT == 14

\* ------------------------------------------------------------------------
\* Bounds of the model
\* ------------------------------------------------------------------------
\* longest generated command text of the parser's exhaustive input set
MaxLen == 4
\* number of writes recorded in the history of the sequential specification
MaxWrites == 2
\* largest offset a positioned read is tried at, past the longest message
MaxOff == 24
\* longest short read tried (the whole buffer's size is tried as well)
MaxReadLen == 3
\* the calls of set_gpio_direction_out made in a row
MaxDirCalls == 2

\* ------------------------------------------------------------------------
\* Characters and texts
\* ------------------------------------------------------------------------
NUL == "NUL"
Spaces == {" ", "\n", "\t"}
Digits == {"0", "1", "2", "3", "4", "5", "6", "7", "8", "9"}

DigitVal(ch) ==
    CASE ch = "0" -> 0 [] ch = "1" -> 1 [] ch = "2" -> 2 [] ch = "3" -> 3
      [] ch = "4" -> 4 [] ch = "5" -> 5 [] ch = "6" -> 6 [] ch = "7" -> 7
      [] ch = "8" -> 8 [] ch = "9" -> 9

Min(a, b) == IF a < b THEN a ELSE b

Take(s, n) == SubSeq(s, 1, Min(n, Len(s)))

Drop(s, n) == SubSeq(s, n + 1, Len(s))

\* The C string held by a zeroed buffer into which bytes were copied: the
\* bytes before the first NUL.
CStr(bytes) ==
    LET nuls == {k \in 1..Len(bytes) : bytes[k] = NUL}
    IN  IF nuls = {} THEN bytes
        ELSE SubSeq(bytes, 1, (CHOOSE k \in nuls : \A j \in nuls : k <= j) - 1)

\* ------------------------------------------------------------------------
\* sscanf(input, "%d:%9s", &pin, action) as the kernel's vsscanf runs it
\* ------------------------------------------------------------------------
\* skip_spaces: the index of the first non-space character at or after k
RECURSIVE SkipSpaces(_, _)
SkipSpaces(s, k) ==
    IF k <= Len(s) /\ s[k] \in Spaces THEN SkipSpaces(s, k + 1) ELSE k

\* the index after the run of digits starting at k
RECURSIVE DigitsEnd(_, _)
DigitsEnd(s, k) ==
    IF k <= Len(s) /\ s[k] \in Digits THEN DigitsEnd(s, k + 1) ELSE k

\* the value of the digits s[k..e-1], accumulated left to right
RECURSIVE DigitsValue(_, _, _, _)
DigitsValue(s, k, e, acc) ==
    IF k >= e THEN acc ELSE DigitsValue(s, k + 1, e, acc * 10 + DigitVal(s[k]))

\* WordEnd that takes one character more than the field width
WordEnd_OneMore(s, k, width) ==
    LET stop == {j \in k..Len(s) : s[j] \in Spaces \/ j > k + width}
    IN  IF stop = {} THEN (IF k > Len(s) THEN k ELSE Len(s) + 1)
        ELSE CHOOSE j \in stop : \A i \in stop : j <= i

\* WordEnd without the field width: the whole run of non-space characters
WordEnd_Unbounded(s, k, width) ==
    LET stop == {j \in k..Len(s) : s[j] \in Spaces}
    IN  IF stop = {} THEN (IF k > Len(s) THEN k ELSE Len(s) + 1)
        ELSE CHOOSE j \in stop : \A i \in stop : j <= i

\* the index after the run of non-space characters starting at k, at most
\* width characters long
RECURSIVE WordEnd(_, _, _)
WordEnd(s, k, width) ==
    IF k <= Len(s) /\ s[k] \notin Spaces /\ width > 0
    THEN WordEnd(s, k + 1, width - 1) ELSE k

\* The result of the call: the number of conversions, and the values stored
\* through the two pointers ("unset" when the conversion did not happen).
\* The decimal texts of the model's input sets are shorter than ten digits,
\* where the conversion to int is exact.
Sscanf(s) ==
    LET p0  == SkipSpaces(s, 1)
        neg == p0 <= Len(s) /\ s[p0] = "-"
        d0  == IF neg THEN p0 + 1 ELSE p0
        d1  == DigitsEnd(s, d0)
        mag == DigitsValue(s, d0, d1, 0)
        val == IF neg THEN 0 - mag ELSE mag
        w0  == SkipSpaces(s, d1 + 1)
        w1  == WordEnd(s, w0, ACTION_WIDTH)
    IN  IF s = <<>> \/ d1 = d0
        THEN [n |-> 0, pin |-> "unset", action |-> "unset"]
        ELSE IF d1 > Len(s) \/ s[d1] # ":" \/ d1 + 1 > Len(s)
        THEN [n |-> 1, pin |-> val, action |-> "unset"]
        ELSE [n |-> 2, pin |-> val, action |-> SubSeq(s, w0, w1 - 1)]

\* ------------------------------------------------------------------------
\* The messages of set_last_error
\* ------------------------------------------------------------------------
InvalidInputFormat ==
    <<"I", "n", "v", "a", "l", "i", "d", " ", "i", "n", "p", "u", "t", " ",
      "f", "o", "r", "m", "a", "t", "\n">>

UnknownActionPrefix ==
    <<"U", "n", "k", "n", "o", "w", "n", " ", "a", "c", "t", "i", "o", "n",
      ":", " ">>

\* vsnprintf(last_error, ERROR_MSG_SIZE, fmt, args): the formatted text cut to
\* the buffer's capacity less the terminator
Vsnprintf(text) == Take(text, ERROR_MSG_SIZE - 1)

ActionOn == <<"o", "n">>
ActionOff == <<"o", "f", "f">>
ActionBlink == <<"b", "l", "i", "n", "k">>

\* ------------------------------------------------------------------------
\* Arithmetic of the C expressions
\* ------------------------------------------------------------------------
\* a / b of two ints, b > 0: C truncates towards zero
CDiv(a, b) == IF a >= 0 THEN a \div b ELSE 0 - ((0 - a) \div b)

\* ------------------------------------------------------------------------
\* State
\* ------------------------------------------------------------------------
Tasks == {1, 2}

VARIABLES
    mpc,          \* where module loading/unloading stands (insmod, rmmod)
    init_ret,     \* what led_ctrl_init returned
    chrdev,       \* register_chrdev's registration is in place
    led_class,    \* the class pointer: "NULL", "valid", "ERR", "destroyed"
    led_device,   \* the device pointer, likewise; "valid": the node exists
    gpio,         \* the mapping: "NULL", "mapped", "unmapped" (dangling)
    last_error,   \* the text held by last_error[]
    fsel,         \* hardware: the function-select registers GPFSEL0..5
    lev,          \* hardware: the pins of bank 0 that are high
    task,         \* per calling task: its position and its locals, with
                  \* what an observer notes of its calls (from ret on)
    fault,        \* a register access happened outside a live mapping
    arch,         \* the build: "arm" (32-bit) or "arm64"; fixed for a
                  \* behaviour
    probe,        \* the observer is attached: what the calls return, copy
                  \* out and write to registers is recorded (ret, outbuf,
                  \* got, log, hist); fixed for a behaviour
    hist          \* the command texts of the writes that returned, in order

\* Shl1 that yields every bit up to the pin's: (2 << pin) - 1
Shl1_LowBits(pin) == 0..(pin % 32)

\* Shl1 with the count off by one: 1 << (pin + 1)
Shl1_NextBit(pin) == {(pin + 1) % 32}

\* 1 << pin, as a register value.  For pin outside 0..31 the shift is
\* undefined, and what it yields is the build's: the shift instruction of
\* AArch64 (and x86) takes the count modulo 32, that of 32-bit ARM takes the
\* count's low byte and yields 0 from 32 on.
Shl1(pin) ==
    IF pin \in 0..31 THEN {pin}
    ELSE IF arch = "arm64" THEN {pin % 32}
    ELSE IF pin % 256 < 32 THEN {pin % 256}
    ELSE {}

hw == <<fsel, lev>>
modvars == <<mpc, init_ret, chrdev, led_class, led_device>>
obs == <<arch, probe, hist>>
vars == <<mpc, init_ret, chrdev, led_class, led_device, gpio, last_error,
          fsel, lev, task, fault, arch, probe, hist>>

NoTask ==
    [pc |-> "closed", call |-> "none", f_pos |-> 0, input |-> <<>>,
     len |-> 0, pin |-> 0, action |-> <<>>, duration |-> 0, i |-> 0,
     ret |-> 0, log |-> <<>>, outbuf |-> <<>>, got |-> <<>>,
     req_len |-> 0, req_off |-> 0, before |-> <<>>, during |-> {}]

\* the function-select registers hold whatever the firmware left in them
FselResets == {{}, 0..31}

\* the machine before insmod
Boot ==
    /\ mpc = "unloaded"
    /\ init_ret = "none"
    /\ chrdev = FALSE
    /\ led_class = "NULL"
    /\ led_device = "NULL"
    /\ gpio = "NULL"
    /\ last_error = <<>>
    /\ \E r \in FselResets : fsel = [k \in 0..5 |-> r]
    /\ lev \in {{}, {GPIO_PIN_21, GPIO_PIN_16}}
    /\ task = [c \in Tasks |-> NoTask]
    /\ fault = FALSE
    /\ hist = <<>>

Archs == {"arm", "arm64"}

\* The tasks of Spec write pins 20 and 21 only, for which the builds agree.
Init == Boot /\ probe = FALSE /\ arch = "arm64"

\* ------------------------------------------------------------------------
\* Register access
\* ------------------------------------------------------------------------
\* What an access through gpio can end as: carried out on the registers; a
\* kernel oops that kills the running thread (a NULL or torn-down mapping);
\* or, through the dangling pointer left by iounmap, an access that lands
\* on whatever the address range holds by then.
Outcomes(g) ==
    IF g = "mapped" THEN {"ok"}
    ELSE IF g = "NULL" THEN {"oops"}
    ELSE {"oops", "stray"}

\* the registers after the hardware takes a write of val at byte offset off
HwAfterWrite(off, val) ==
    IF off = GPIO_SET_OFFSET THEN <<fsel, lev \cup val>>
    ELSE IF off = GPIO_CLR_OFFSET THEN <<fsel, lev \ val>>
    ELSE IF off \div 4 \in DOMAIN fsel
    THEN <<[fsel EXCEPT ![off \div 4] = val], lev>>
    ELSE <<fsel, lev>>

\* iowrite32(val, gpio + off / 4)
IoWrite32(val, off, outcome) ==
    /\ outcome \in Outcomes(gpio)
    /\ fsel' = IF outcome = "ok" THEN HwAfterWrite(off, val)[1] ELSE fsel
    /\ lev' = IF outcome = "ok" THEN HwAfterWrite(off, val)[2] ELSE lev
    /\ fault' = (fault \/ gpio # "mapped")

\* DirectionOut without the clearing of the field: value | (1 << shift)
DirectionOut_NoClear(value, pin) == value \cup {(pin % 10) * 3}

\* set_gpio_direction_out(pin): the value written back to GPFSEL[pin / 10]
DirectionOut(value, pin) ==
    LET shift == (pin % 10) * 3
    IN  (value \ {shift, shift + 1, shift + 2}) \cup {shift}

\* ------------------------------------------------------------------------
\* Module loading: led_ctrl_init, one action per call it makes
\* ------------------------------------------------------------------------
\* the module's code is in memory: from insmod until the kernel frees it,
\* after init has returned an error or exit has returned
TextPresent == mpc \notin {"unloaded", "init_failed", "gone"}

\* major_number = register_chrdev(0, DEVICE_NAME, &f_ops)
InitRegisterChrdev(ok) ==
    /\ mpc = "unloaded"
    /\ chrdev' = ok
    /\ mpc' = IF ok THEN "class_create" ELSE "init_error"
    /\ init_ret' = IF ok THEN init_ret ELSE "major_number"
    /\ UNCHANGED <<led_class, led_device, gpio, last_error, hw, task, fault,
                   obs>>

\* led_class = class_create(CLASS_NAME)
InitClassCreate(ok) ==
    /\ mpc = "class_create"
    /\ led_class' = IF ok THEN "valid" ELSE "ERR"
    /\ chrdev' = ok
    /\ mpc' = IF ok THEN "device_create" ELSE "init_error"
    /\ init_ret' = IF ok THEN init_ret ELSE "PTR_ERR(led_class)"
    /\ UNCHANGED <<led_device, gpio, last_error, hw, task, fault, obs>>

\* led_device = device_create(led_class, NULL, MKDEV(major_number, 0), ...)
InitDeviceCreate(ok) ==
    /\ mpc = "device_create"
    /\ led_device' = IF ok THEN "valid" ELSE "ERR"
    /\ led_class' = IF ok THEN led_class ELSE "destroyed"
    /\ chrdev' = ok
    /\ mpc' = IF ok THEN "gpio_init" ELSE "init_error"
    /\ init_ret' = IF ok THEN init_ret ELSE "PTR_ERR(led_device)"
    /\ UNCHANGED <<gpio, last_error, hw, task, fault, obs>>

\* InitGpioInit whose failure path calls gpio_exit
InitGpioInit_Unwind(ok) ==
    /\ mpc = "gpio_init"
    /\ gpio' = IF ok THEN "mapped" ELSE "unmapped"
    /\ mpc' = IF ok THEN "direction_21" ELSE "init_error"
    /\ init_ret' = IF ok THEN init_ret ELSE "-ENOMEM"
    /\ UNCHANGED <<chrdev, led_class, led_device, last_error, hw, task,
                   fault, obs>>

\* gpio_init(): ioremap; on failure led_ctrl_init returns ret at once
InitGpioInit(ok) ==
    /\ mpc = "gpio_init"
    /\ gpio' = IF ok THEN "mapped" ELSE "NULL"
    /\ mpc' = IF ok THEN "direction_21" ELSE "init_error"
    /\ init_ret' = IF ok THEN init_ret ELSE "-ENOMEM"
    /\ UNCHANGED <<chrdev, led_class, led_device, last_error, hw, task,
                   fault, obs>>

\* led_ctrl_init has returned an error: the kernel frees the module, and
\* led_ctrl_exit never runs
InitFailed ==
    /\ mpc = "init_error"
    /\ mpc' = "init_failed"
    /\ UNCHANGED <<init_ret, chrdev, led_class, led_device, gpio, last_error,
                   hw, task, fault, obs>>

\* the pin led_ctrl_init configures at each of its three calls, and what
\* follows the call
InitPinAt(at) ==
    CASE at = "direction_21" -> GPIO_PIN_21
      [] at = "direction_20" -> GPIO_PIN_20
      [] at = "direction_16" -> GPIO_PIN_16

InitAfter(at) ==
    CASE at = "direction_21" -> "direction_20"
      [] at = "direction_20" -> "direction_16"
      [] at = "direction_16" -> "live"

\* set_gpio_direction_out(pin), called by led_ctrl_init; after the third
\* call init returns 0
InitSetDirection ==
    /\ mpc \in {"direction_21", "direction_20", "direction_16"}
    /\ LET pin == InitPinAt(mpc)
           reg == pin \div 10
       IN  \E outcome \in Outcomes(gpio) :
             IoWrite32(DirectionOut(fsel[reg], pin), reg * 4, outcome)
    /\ mpc' = InitAfter(mpc)
    /\ init_ret' = IF mpc = "direction_16" THEN "0" ELSE init_ret
    /\ UNCHANGED <<chrdev, led_class, led_device, gpio, last_error, task,
                   obs>>

\* ------------------------------------------------------------------------
\* Module unloading: led_ctrl_exit, one action per call it makes.  f_ops
\* names no owner, so an open file does not hold the module: rmmod runs
\* whenever the module is live.
\* ------------------------------------------------------------------------
ExitPinAt(at) ==
    CASE at = "live" -> GPIO_PIN_21
      [] at = "clear_20" -> GPIO_PIN_20
      [] at = "clear_16" -> GPIO_PIN_16

ExitAfter(at) ==
    CASE at = "live" -> "clear_20"
      [] at = "clear_20" -> "clear_16"
      [] at = "clear_16" -> "gpio_exit"

\* gpio_clear(pin), called by led_ctrl_exit
ExitClear ==
    /\ mpc \in {"live", "clear_20", "clear_16"}
    /\ \E outcome \in Outcomes(gpio) :
         IoWrite32(Shl1(ExitPinAt(mpc)), GPIO_CLR_OFFSET, outcome)
    /\ mpc' = ExitAfter(mpc)
    /\ UNCHANGED <<init_ret, chrdev, led_class, led_device, gpio, last_error,
                   task, obs>>

\* gpio_exit(): iounmap(gpio); the pointer keeps its value
ExitGpioExit ==
    /\ mpc = "gpio_exit"
    /\ gpio' = "unmapped"
    /\ mpc' = "device_destroy"
    /\ UNCHANGED <<init_ret, chrdev, led_class, led_device, last_error, hw,
                   task, fault, obs>>

\* device_destroy(led_class, MKDEV(major_number, 0))
ExitDeviceDestroy ==
    /\ mpc = "device_destroy"
    /\ led_device' = "destroyed"
    /\ mpc' = "class_destroy"
    /\ UNCHANGED <<init_ret, chrdev, led_class, gpio, last_error, hw, task,
                   fault, obs>>

\* class_unregister(led_class); class_destroy(led_class)
ExitClassDestroy ==
    /\ mpc = "class_destroy"
    /\ led_class' = "destroyed"
    /\ mpc' = "unregister_chrdev"
    /\ UNCHANGED <<init_ret, chrdev, led_device, gpio, last_error, hw, task,
                   fault, obs>>

\* unregister_chrdev(major_number, DEVICE_NAME); led_ctrl_exit returns
ExitUnregisterChrdev ==
    /\ mpc = "unregister_chrdev"
    /\ chrdev' = FALSE
    /\ mpc' = "gone"
    /\ UNCHANGED <<init_ret, led_class, led_device, gpio, last_error, hw,
                   task, fault, obs>>

\* ------------------------------------------------------------------------
\* The file operations, run by the calling tasks
\* ------------------------------------------------------------------------
\* the tasks other than c
Others(c) == Tasks \ {c}

\* led_ctrl_dev_open: the node exists and the registration is in place
DevOpen(c) ==
    /\ task[c].pc = "closed"
    /\ TextPresent
    /\ chrdev
    /\ led_device = "valid"
    /\ task' = [task EXCEPT ![c] = [NoTask EXCEPT !.pc = "idle"]]
    /\ UNCHANGED <<modvars, gpio, last_error, hw, fault, obs>>

\* led_ctrl_dev_release
DevRelease(c) ==
    /\ task[c].pc = "idle"
    /\ TextPresent
    /\ task' = [task EXCEPT ![c] = NoTask]
    /\ UNCHANGED <<modvars, gpio, last_error, hw, fault, obs>>

\* ReadAt that advances the offset although the copy failed
ReadAt_AdvanceOnFault(off, len, copy_ok) ==
    LET error_len == Len(last_error)
        n == Min(len, error_len - off)
    IN  IF off >= error_len
        THEN [ret |-> 0, data |-> <<>>, off |-> off]
        ELSE IF ~copy_ok /\ n > 0
        THEN [ret |-> 0 - EFAULT, data |-> <<>>, off |-> off + n]
        ELSE [ret |-> n, data |-> SubSeq(last_error, off + 1, off + n),
              off |-> off + n]

\* ReadAt that leaves the offset where it was
ReadAt_NoAdvance(off, len, copy_ok) ==
    LET error_len == Len(last_error)
        n == Min(len, error_len - off)
    IN  IF off >= error_len
        THEN [ret |-> 0, data |-> <<>>, off |-> off]
        ELSE IF ~copy_ok /\ n > 0
        THEN [ret |-> 0 - EFAULT, data |-> <<>>, off |-> off]
        ELSE [ret |-> n, data |-> SubSeq(last_error, off + 1, off + n),
              off |-> off]

\* What led_ctrl_dev_read does with the offset it is handed: the value it
\* returns, the bytes it copies out and the offset it leaves.  A copy of no
\* bytes cannot fail.
ReadAt(off, len, copy_ok) ==
    LET error_len == Len(last_error)
        n == Min(len, error_len - off)
    IN  IF off >= error_len
        THEN [ret |-> 0, data |-> <<>>, off |-> off]
        ELSE IF ~copy_ok /\ n > 0
        THEN [ret |-> 0 - EFAULT, data |-> <<>>, off |-> off]
        ELSE [ret |-> n, data |-> SubSeq(last_error, off + 1, off + n),
              off |-> off + n]

\* led_ctrl_dev_read through read(2): the offset is the file's position
DevRead(c, len, copy_ok) ==
    /\ task[c].pc = "idle"
    /\ TextPresent
    /\ LET r == ReadAt(task[c].f_pos, len, copy_ok)
       IN  task' = [task EXCEPT ![c] =
                      IF probe
                      THEN [@ EXCEPT !.call = "read", !.req_len = len,
                                     !.req_off = task[c].f_pos,
                                     !.ret = r.ret,
                                     !.outbuf = r.data, !.f_pos = r.off,
                                     !.got = @ \o r.data]
                      ELSE [@ EXCEPT !.f_pos = r.off]]
    /\ UNCHANGED <<modvars, gpio, last_error, hw, fault, obs>>

\* led_ctrl_dev_read through pread(2): the offset is the caller's, and the
\* file's position stays
DevPread(c, len, off, copy_ok) ==
    /\ task[c].pc = "idle"
    /\ TextPresent
    /\ LET r == ReadAt(off, len, copy_ok)
       IN  task' = [task EXCEPT ![c] =
                      IF probe
                      THEN [@ EXCEPT !.call = "pread", !.req_len = len,
                                     !.req_off = off, !.ret = r.ret,
                                     !.outbuf = r.data]
                      ELSE @]
    /\ UNCHANGED <<modvars, gpio, last_error, hw, fault, obs>>

\* task c is inside gpio_blink
InBlink(c) == task[c].pc \in {"blink_set", "blink_clear"}

\* task c is between the first set and the last clear of a gpio_blink
MidBlink(c) == InBlink(c) /\ ~(task[c].pc = "blink_set" /\ task[c].i = 0)

\* led_ctrl_dev_write up to the call of handle_input: the length is cut to
\* 255, the bytes are copied into the zeroed buffer; a failed copy returns
\* -EFAULT (a copy of no bytes cannot fail).  At most maxw writes are taken
\* while the history is recorded.
\* The write notes the tasks whose blink is under way as it arrives.
DevWrite(c, bytes, copy_ok, maxw) ==
    /\ task[c].pc = "idle"
    /\ TextPresent
    /\ Len(hist) < maxw
    /\ LET len == Min(Len(bytes), INPUT_MAX)
       IN  task' = [task EXCEPT ![c] =
                      IF copy_ok \/ len = 0
                      THEN [@ EXCEPT !.call = "write", !.len = len,
                                     !.input = CStr(Take(bytes, len)),
                                     !.ret = 0, !.outbuf = <<>>,
                                     !.req_len = IF probe THEN Len(bytes) ELSE 0,
                                     !.before = IF probe THEN last_error ELSE <<>>,
                                     !.during = {d \in Others(c) : MidBlink(d)},
                                     !.pc = "handle_input"]
                      ELSE IF probe
                      THEN [@ EXCEPT !.call = "write", !.outbuf = <<>>,
                                     !.req_len = Len(bytes),
                                     !.ret = 0 - EFAULT]
                      ELSE @]
    /\ UNCHANGED <<modvars, gpio, last_error, hw, fault, obs>>

\* BlinkCycles that counts a started cycle as a whole one
BlinkCycles_RoundUp(duration_ms) == CDiv(duration_ms + CYCLE_MS - 1, CYCLE_MS)

\* the number of cycles of gpio_blink's loop
BlinkCycles(duration_ms) == CDiv(duration_ms, CYCLE_MS)

\* where a task goes when gpio_blink returns: back into led_ctrl_dev_write,
\* or to the caller that invoked gpio_blink by itself
AfterBlink(t) == IF t.call = "write" THEN "return" ELSE "idle"

\* handle_input up to its dispatch: the sscanf and the strcmp chain
HandleInput(c) ==
    /\ task[c].pc = "handle_input"
    /\ LET r == Sscanf(task[c].input)
       IN  task' = [task EXCEPT ![c] =
             IF r.n # 2 THEN [@ EXCEPT !.pc = "invalid"]
             ELSE IF r.action = ActionOn
             THEN [@ EXCEPT !.pin = r.pin, !.action = r.action,
                            !.pc = "gpio_set"]
             ELSE IF r.action = ActionOff
             THEN [@ EXCEPT !.pin = r.pin, !.action = r.action,
                            !.pc = "gpio_clear"]
             ELSE IF r.action = ActionBlink
             THEN [@ EXCEPT !.pin = r.pin, !.action = r.action,
                            !.duration = BLINK_MS, !.i = 0,
                            !.pc = IF 0 < BlinkCycles(BLINK_MS)
                                   THEN "blink_set" ELSE "return"]
             ELSE [@ EXCEPT !.pin = r.pin, !.action = r.action,
                            !.pc = "unknown"]]
    /\ UNCHANGED <<modvars, gpio, last_error, hw, fault, obs>>

\* ErrorText with "Invalid input format" formatted without its newline
ErrorText_NoNewline(t) ==
    IF t.pc = "invalid"
    THEN Take(InvalidInputFormat, Len(InvalidInputFormat) - 1)
    ELSE UnknownActionPrefix \o t.action \o <<"\n">>

\* the text set_last_error formats at each of handle_input's two calls
ErrorText(t) ==
    IF t.pc = "invalid" THEN InvalidInputFormat
    ELSE UnknownActionPrefix \o t.action \o <<"\n">>

\* SetLastError that keeps a message already stored
SetLastError_KeepFirst(c) ==
    /\ task[c].pc \in {"invalid", "unknown"}
    /\ last_error' = IF last_error = <<>>
                     THEN Vsnprintf(ErrorText(task[c])) ELSE last_error
    /\ task' = [task EXCEPT ![c].pc = "return"]
    /\ UNCHANGED <<modvars, gpio, hw, fault, obs>>

\* set_last_error(...), from handle_input
SetLastError(c) ==
    /\ task[c].pc \in {"invalid", "unknown"}
    /\ last_error' = Vsnprintf(ErrorText(task[c]))
    /\ task' = [task EXCEPT ![c].pc = "return"]
    /\ UNCHANGED <<modvars, gpio, hw, fault, obs>>

\* the entries of a task's log: a register write it issued, a sleep it took
Wr(off, val) == <<"iowrite32", off, val>>
Sleep(ms) == <<"msleep", ms>>

\* a log with the entries added, when the observer is attached
Logged(log, entries) == IF probe THEN log \o entries ELSE log

\* a task's position after a register access
AfterAccess(outcome, next) == IF outcome = "oops" THEN "oops" ELSE next

\* GpioSet that writes the register the pin's number selects, gpio + pin / 10
GpioSet_ByPinRegister(c) ==
    /\ task[c].pc = "gpio_set"
    /\ \E outcome \in Outcomes(gpio) :
         LET val == Shl1(task[c].pin)
             off == (task[c].pin \div 10) * 4
         IN  /\ IoWrite32(val, off, outcome)
             /\ task' = [task EXCEPT ![c] =
                  [@ EXCEPT !.log = Logged(@, <<Wr(off, val)>>),
                            !.pc = AfterAccess(outcome, "return")]]
    /\ UNCHANGED <<modvars, gpio, last_error, obs>>

\* gpio_set(pin), from handle_input
GpioSet(c) ==
    /\ task[c].pc = "gpio_set"
    /\ \E outcome \in Outcomes(gpio) : LET val == Shl1(task[c].pin) IN
         /\ IoWrite32(val, GPIO_SET_OFFSET, outcome)
         /\ task' = [task EXCEPT ![c] =
              [@ EXCEPT !.log = Logged(@, <<Wr(GPIO_SET_OFFSET, val)>>),
                        !.pc = AfterAccess(outcome, "return")]]
    /\ UNCHANGED <<modvars, gpio, last_error, obs>>

\* gpio_clear(pin), from handle_input
GpioClear(c) ==
    /\ task[c].pc = "gpio_clear"
    /\ \E outcome \in Outcomes(gpio) : LET val == Shl1(task[c].pin) IN
         /\ IoWrite32(val, GPIO_CLR_OFFSET, outcome)
         /\ task' = [task EXCEPT ![c] =
              [@ EXCEPT !.log = Logged(@, <<Wr(GPIO_CLR_OFFSET, val)>>),
                        !.pc = AfterAccess(outcome, "return")]]
    /\ UNCHANGED <<modvars, gpio, last_error, obs>>

\* the tasks' notes once task c has left gpio_blink
BlinkOver(t, c) == [d \in Tasks |-> [t[d] EXCEPT !.during = @ \ {c}]]

\* gpio_blink's first half cycle: gpio_set(pin); msleep(50)
BlinkSet(c) ==
    /\ task[c].pc = "blink_set"
    /\ \E outcome \in Outcomes(gpio) :
         LET val == Shl1(task[c].pin)
             t == [task EXCEPT ![c] =
                    [@ EXCEPT !.log = Logged(@, IF outcome = "oops"
                                                THEN <<Wr(GPIO_SET_OFFSET, val)>>
                                                ELSE <<Wr(GPIO_SET_OFFSET, val),
                                                       Sleep(SLEEP_MS)>>),
                              !.pc = AfterAccess(outcome, "blink_clear")]]
         IN  /\ IoWrite32(val, GPIO_SET_OFFSET, outcome)
             /\ task' = IF outcome = "oops" THEN BlinkOver(t, c) ELSE t
    /\ UNCHANGED <<modvars, gpio, last_error, obs>>

\* gpio_blink's second half cycle: gpio_clear(pin); msleep(50); i++ and the
\* loop test
BlinkClear(c) ==
    /\ task[c].pc = "blink_clear"
    /\ \E outcome \in Outcomes(gpio) :
         LET val == Shl1(task[c].pin)
             more == task[c].i + 1 < BlinkCycles(task[c].duration)
             t == [task EXCEPT ![c] =
                    [@ EXCEPT !.log = Logged(@, IF outcome = "oops"
                                                THEN <<Wr(GPIO_CLR_OFFSET, val)>>
                                                ELSE <<Wr(GPIO_CLR_OFFSET, val),
                                                       Sleep(SLEEP_MS)>>),
                              !.i = IF outcome = "oops" THEN @ ELSE @ + 1,
                              !.pc = AfterAccess(outcome,
                                       IF more THEN "blink_set"
                                       ELSE AfterBlink(task[c]))]]
         IN  /\ IoWrite32(val, GPIO_CLR_OFFSET, outcome)
             /\ task' = IF more /\ outcome # "oops" THEN t ELSE BlinkOver(t, c)
    /\ UNCHANGED <<modvars, gpio, last_error, obs>>

\* WriteReturn that returns the length of the command text, strlen(input)
WriteReturn_Strlen(c) ==
    /\ task[c].pc = "return"
    /\ task' = [task EXCEPT ![c] =
                  [NoTask EXCEPT !.pc = "idle",
                                 !.call = IF probe THEN "write" ELSE "none",
                                 !.ret = IF probe THEN Len(task[c].input)
                                         ELSE 0,
                                 !.req_len = task[c].req_len,
                                 !.f_pos = task[c].f_pos,
                                 !.got = task[c].got]]
    /\ hist' = IF probe THEN Append(hist, task[c].input) ELSE hist
    /\ UNCHANGED <<arch, probe>>
    /\ UNCHANGED <<modvars, gpio, last_error, hw, fault>>

\* led_ctrl_dev_write returns len, and its frame (input, and the locals of
\* the calls it made) is gone
WriteReturn(c) ==
    /\ task[c].pc = "return"
    /\ task' = [task EXCEPT ![c] =
                  [NoTask EXCEPT !.pc = "idle",
                                 !.call = IF probe THEN "write" ELSE "none",
                                 !.ret = IF probe THEN task[c].len ELSE 0,
                                 !.req_len = task[c].req_len,
                                 !.f_pos = task[c].f_pos,
                                 !.got = task[c].got]]
    /\ hist' = IF probe THEN Append(hist, task[c].input) ELSE hist
    /\ UNCHANGED <<arch, probe>>
    /\ UNCHANGED <<modvars, gpio, last_error, hw, fault>>

\* gpio_blink(pin, duration_ms) invoked by itself
CallGpioBlink(c, pin, duration_ms) ==
    /\ task[c].pc = "idle"
    /\ TextPresent
    /\ task' = [task EXCEPT ![c] =
          [@ EXCEPT !.call = "gpio_blink", !.pin = pin,
                    !.duration = duration_ms, !.i = 0,
                    !.pc = IF 0 < BlinkCycles(duration_ms)
                           THEN "blink_set" ELSE "idle"]]
    /\ UNCHANGED <<modvars, gpio, last_error, hw, fault, obs>>

\* set_gpio_direction_out(pin) invoked by itself: the register is read,
\* the pin's field replaced, the value written back
CallSetGpioDirectionOut(c, pin) ==
    /\ task[c].pc = "idle"
    /\ TextPresent
    /\ Len(task[c].log) < MaxDirCalls
    /\ \E outcome \in Outcomes(gpio) :
         LET reg == pin \div 10
             value == DirectionOut(fsel[reg], pin)
         IN  /\ IoWrite32(value, reg * 4, outcome)
             /\ task' = [task EXCEPT ![c] =
                  [@ EXCEPT !.call = "direction", !.pin = pin,
                            !.log = Append(@, Wr(reg * 4, value)),
                            !.pc = AfterAccess(outcome, "idle")]]
    /\ UNCHANGED <<modvars, gpio, last_error, obs>>

\* A task that enters or is still inside the driver's code once the module's
\* memory has been freed (init failed past the registration, or exit
\* returned) executes freed memory: the kernel kills it.
RunFreedText(c) ==
    /\ ~TextPresent
    /\ \/ task[c].pc \notin {"closed", "oops"}
       \/ task[c].pc = "closed" /\ chrdev /\ led_device = "valid"
    /\ task' = BlinkOver([task EXCEPT ![c].pc = "oops"], c)
    /\ UNCHANGED <<modvars, gpio, last_error, hw, fault, obs>>

\* ------------------------------------------------------------------------
\* Inputs
\* ------------------------------------------------------------------------
T_21on == <<"2", "1", ":", "o", "n">>
T_21off == <<"2", "1", ":", "o", "f", "f">>
T_21blink == <<"2", "1", ":", "b", "l", "i", "n", "k">>
T_20on == <<"2", "0", ":", "o", "n">>
T_garbage == <<"g", "a", "r", "b", "a", "g", "e">>
T_21dance == <<"2", "1", ":", "d", "a", "n", "c", "e">>
T_40on == <<"4", "0", ":", "o", "n">>

\* the command texts the tasks write in the specifications of the whole
\* driver
CmdTexts == {T_21on, T_21off, T_21blink, T_20on, T_garbage, T_21dance, T_40on}

\* the texts each task writes while the tasks run concurrently
TextsOf(c) ==
    IF c = 1 THEN {T_21on, T_21off, T_21blink, T_garbage}
    ELSE {T_20on, T_21off, T_21dance}

\* the characters of the generated texts
Alphabet == {"1", "-", ":", " ", "o", "n"}

\* every text of at most MaxLen characters over the alphabet
Generated == UNION {[1..k -> Alphabet] : k \in 0..MaxLen}

\* texts chosen for the parser's corner cases: the trailing newline echo
\* adds, spaces around the fields, a colon with nothing or only space after
\* it, signs, pins at and past the register's width, near misses of the
\* action words, a word longer than the field, an embedded NUL, and a text
\* longer than the buffer
Curated ==
    CmdTexts \cup
    { <<"2", "1", ":", "o", "n", "\n">>,
      <<" ", "2", "1", ":", " ", "o", "f", "f", "\n">>,
      <<"2", "1", ":">>,
      <<"2", "1", ":", "\n">>,
      <<"2", "1", " ", ":", "o", "n">>,
      <<"2", "1", "o", "n">>,
      <<":", "o", "n">>,
      <<"+", "2", "1", ":", "o", "n">>,
      <<"-", "1", ":", "o", "n">>,
      <<"-", "1", ":", "o", "f", "f">>,
      <<"-", "2", "2", "5", ":", "o", "n">>,
      <<"0", ":", "o", "f", "f">>,
      <<"3", "1", ":", "o", "n">>,
      <<"3", "2", ":", "o", "n">>,
      <<"4", "0", ":", "o", "f", "f">>,
      <<"4", "0", ":", "b", "l", "i", "n", "k">>,
      <<"4", "0", ":", "d", "a", "n", "c", "e">>,
      <<"2", "1", ":", "O", "n">>,
      <<"2", "1", ":", "o", "n", "n">>,
      <<"2", "1", ":", "o", "n", " ", "x">>,
      <<"2", ":", "a", "b", "c", "d", "e", "f", "g", "h", "i", "j", "k">>,
      <<"2", "1", ":", "b", "l", "i", "n", "k", "b", "l", "i", "n", "k">>,
      <<"2", "1", ":", "o", NUL, "n">>,
      <<"2", "1", ":", "o", "n", NUL, "x">>,
      [k \in 1..300 |-> IF k = 1 THEN "7" ELSE IF k = 2 THEN ":" ELSE "z"] }

ParseInputs == Generated \cup Curated

\* the texts Last Error can hold when a call arrives
T_UnknownDance == UnknownActionPrefix \o <<"d", "a", "n", "c", "e", "\n">>
StaleErrors == {<<>>, InvalidInputFormat, T_UnknownDance}

\* the calls of gpio_blink by itself
BlinkPins == {GPIO_PIN_21, 0, 31}
BlinkDurations == {0 - 150, 0 - 100, 0 - 1, 0, 99, 100, 250, 500}

ReadLens == 0..MaxReadLen \cup {ERROR_MSG_SIZE}

\* the pins whose bits the set and clear registers hold
RegisterPins == 0..31

\* ------------------------------------------------------------------------
\* Spec: the whole driver.  Loading, unloading and the tasks' calls
\* interleave freely, as the kernel lets them.
\* ------------------------------------------------------------------------
Next ==
    \/ \E ok \in BOOLEAN : InitRegisterChrdev(ok)
    \/ \E ok \in BOOLEAN : InitClassCreate(ok)
    \/ \E ok \in BOOLEAN : InitDeviceCreate(ok)
    \/ \E ok \in BOOLEAN : InitGpioInit(ok)
    \/ InitSetDirection
    \/ InitFailed
    \/ ExitClear
    \/ ExitGpioExit
    \/ ExitDeviceDestroy
    \/ ExitClassDestroy
    \/ ExitUnregisterChrdev
    \/ \E c \in Tasks : DevOpen(c)
    \/ \E c \in Tasks : DevRelease(c)
    \/ \E c \in Tasks : DevPread(c, ERROR_MSG_SIZE, 0, TRUE)
    \/ \E c \in Tasks : \E bytes \in TextsOf(c) : DevWrite(c, bytes, TRUE, 1)
    \/ \E c \in Tasks : HandleInput(c)
    \/ \E c \in Tasks : SetLastError(c)
    \/ \E c \in Tasks : GpioSet(c)
    \/ \E c \in Tasks : GpioClear(c)
    \/ \E c \in Tasks : BlinkSet(c)
    \/ \E c \in Tasks : BlinkClear(c)
    \/ \E c \in Tasks : WriteReturn(c)
    \/ \E c \in Tasks : RunFreedText(c)

Spec == Init /\ [][Next]_vars

\* ------------------------------------------------------------------------
\* SpecSeq: the driver used as a single command stream.  One task opens the
\* node once startup has completed, issues one call at a time, and rmmod
\* runs once the task has closed the node.  The calls are observed and the
\* commands recorded.
\* ------------------------------------------------------------------------
InitSeq == Boot /\ probe = TRUE /\ arch \in Archs

Quiet == \A c \in Tasks : task[c].pc = "closed"

SeqLens == {MaxReadLen, ERROR_MSG_SIZE}

NextSeq ==
    \/ \E ok \in BOOLEAN : InitRegisterChrdev(ok)
    \/ \E ok \in BOOLEAN : InitClassCreate(ok)
    \/ \E ok \in BOOLEAN : InitDeviceCreate(ok)
    \/ \E ok \in BOOLEAN : InitGpioInit(ok)
    \/ InitSetDirection
    \/ InitFailed
    \/ Quiet /\ ExitClear
    \/ ExitGpioExit
    \/ ExitDeviceDestroy
    \/ ExitClassDestroy
    \/ ExitUnregisterChrdev
    \/ mpc = "live" /\ DevOpen(1)
    \/ mpc = "live" /\ DevRelease(1)
    \/ mpc = "live" /\ \E len \in SeqLens : \E ok \in BOOLEAN :
         DevRead(1, len, ok)
    \/ mpc = "live" /\ \E bytes \in CmdTexts : \E ok \in BOOLEAN :
         DevWrite(1, bytes, ok, MaxWrites)
    \/ HandleInput(1)
    \/ SetLastError(1)
    \/ GpioSet(1)
    \/ GpioClear(1)
    \/ BlinkSet(1)
    \/ BlinkClear(1)
    \/ WriteReturn(1)

SpecSeq == InitSeq /\ [][NextSeq]_vars

\* ------------------------------------------------------------------------
\* SpecUnit: one call on a started driver.  The initial states are those of
\* a live module with the node open: the function-select registers as
\* led_ctrl_init leaves them, Last Error as an earlier command left it.
\* The task makes one write, or one gpio_blink (among them one cycle, a
\* gpio_set and a gpio_clear, on each pin of the register), or one
\* positioned read, or any number of reads at the file's position.
\* ------------------------------------------------------------------------
\* GPFSEL0..5 after led_ctrl_init, from the reset value r in every register
Configured(r) ==
    [k \in 0..5 |->
        IF k = GPIO_PIN_21 \div 10
        THEN DirectionOut(DirectionOut(r, GPIO_PIN_21), GPIO_PIN_20)
        ELSE IF k = GPIO_PIN_16 \div 10 THEN DirectionOut(r, GPIO_PIN_16)
        ELSE r]

InitUnit ==
    /\ mpc = "live"
    /\ init_ret = "0"
    /\ chrdev = TRUE
    /\ led_class = "valid"
    /\ led_device = "valid"
    /\ gpio = "mapped"
    /\ last_error \in StaleErrors
    /\ \E r \in FselResets : fsel = Configured(r)
    /\ lev \in {{}, {GPIO_PIN_21, GPIO_PIN_16}}
    /\ task = [c \in Tasks |->
                 IF c = 1 THEN [NoTask EXCEPT !.pc = "idle"] ELSE NoTask]
    /\ fault = FALSE
    /\ arch \in Archs
    /\ probe = TRUE
    /\ hist = <<>>

\* the task has made no call yet
Fresh(c) == task[c].call = "none"

\* the task has made no call but read(2)s
Reading(c) == task[c].call \in {"none", "read"}

NextUnit ==
    \/ Fresh(1) /\ \E bytes \in ParseInputs : DevWrite(1, bytes, TRUE, 1)
    \/ HandleInput(1)
    \/ SetLastError(1)
    \/ GpioSet(1)
    \/ GpioClear(1)
    \/ BlinkSet(1)
    \/ BlinkClear(1)
    \/ WriteReturn(1)
    \/ Fresh(1) /\ \E pin \in BlinkPins : \E ms \in BlinkDurations :
         CallGpioBlink(1, pin, ms)
    \/ Fresh(1) /\ \E pin \in RegisterPins : CallGpioBlink(1, pin, CYCLE_MS)
    \/ Reading(1) /\ \E len \in ReadLens : \E ok \in BOOLEAN :
         DevRead(1, len, ok)
    \/ Fresh(1) /\ \E len \in ReadLens : \E off \in 0..MaxOff :
         \E ok \in BOOLEAN : DevPread(1, len, off, ok)

SpecUnit == InitUnit /\ [][NextUnit]_vars

\* ------------------------------------------------------------------------
\* SpecDir: set_gpio_direction_out by itself, on a started driver: up to
\* MaxDirCalls calls in a row, each on any pin that has a function-select
\* field, over several contents of the function-select registers.
\* ------------------------------------------------------------------------
\* the pins of the six function-select registers
FselPins == 0..53

\* what the function-select registers can hold when the driver starts: the
\* reset values, and patterns with other functions selected
FselPriors ==
    FselResets \cup {{k \in 0..31 : k % 2 = 0}, {k \in 0..31 : k % 3 = 1}}

InitDir ==
    /\ mpc = "live"
    /\ init_ret = "0"
    /\ chrdev = TRUE
    /\ led_class = "valid"
    /\ led_device = "valid"
    /\ gpio = "mapped"
    /\ last_error = <<>>
    /\ \E r \in FselPriors : fsel = Configured(r)
    /\ lev = {}
    /\ task = [c \in Tasks |->
                 IF c = 1 THEN [NoTask EXCEPT !.pc = "idle"] ELSE NoTask]
    /\ fault = FALSE
    /\ arch = "arm64"
    /\ probe = TRUE
    /\ hist = <<>>

NextDir == \E pin \in FselPins : CallSetGpioDirectionOut(1, pin)

SpecDir == InitDir /\ [][NextDir]_vars

\* ------------------------------------------------------------------------
\* The command grammar as the specification words it: <integer>:<word>
\* ------------------------------------------------------------------------
\* the position of the first colon of a text, 0 when it has none
ColonPos(s) ==
    LET at == {k \in 1..Len(s) : s[k] = ":"}
    IN  IF at = {} THEN 0 ELSE CHOOSE k \in at : \A j \in at : k <= j

\* the position of the first character of a text that is no white space,
\* Len + 1 when it has none
FirstInk(s) ==
    LET at == {k \in 1..Len(s) : s[k] \notin Spaces}
    IN  IF at = {} THEN Len(s) + 1 ELSE CHOOSE k \in at : \A j \in at : k <= j

\* what stands before the first colon, less the white space leading it
PinText(s) == LET t == SubSeq(s, 1, ColonPos(s) - 1) IN Drop(t, FirstInk(t) - 1)

\* what stands after the first colon
AfterColon(s) == Drop(s, ColonPos(s))

\* a decimal integer: digits, after an optional minus sign
IsInteger(t) ==
    LET d == IF t # <<>> /\ t[1] = "-" THEN Tail(t) ELSE t
    IN  d # <<>> /\ \A k \in 1..Len(d) : d[k] \in Digits

\* the text starts with an integer that a colon follows at once
HasPinAndColon(s) == ColonPos(s) > 0 /\ IsInteger(PinText(s))

\* the text has a token after the colon
HasToken(s) == FirstInk(AfterColon(s)) <= Len(AfterColon(s))

\* the pin a text names
PinOf(s) ==
    LET t == PinText(s)
    IN  IF t[1] = "-" THEN 0 - DigitsValue(t, 2, Len(t) + 1, 0)
        ELSE DigitsValue(t, 1, Len(t) + 1, 0)

\* the word after the colon: the characters from the first that is no white
\* space up to the next white space, nine of them at most
TokenOf(s) ==
    LET r == AfterColon(s)
        w == Drop(r, FirstInk(r) - 1)
        stop == {k \in 1..Len(w) : w[k] \in Spaces}
        e == IF stop = {} THEN Len(w)
             ELSE (CHOOSE k \in stop : \A j \in stop : k <= j) - 1
    IN  Take(w, Min(e, ACTION_WIDTH))

Actions == {ActionOn, ActionOff, ActionBlink}

\* a write of task c has run handle_input and is about to return
Handled(c) == task[c].pc = "return" /\ task[c].call = "write"

\* the register writes in a log
WritesOf(log) == SelectSeq(log, LAMBDA e : e[1] = "iowrite32")

\* ------------------------------------------------------------------------
\* C1  No GPIO register is read or written before ioremap has succeeded or
\*     after iounmap, in any interleaving of startup, shutdown and writes.
\*     Stated as an invariant of Spec; the driver violates it: a write that
\*     arrives between device_create and gpio_init, or after iounmap,
\*     reaches iowrite32 through a NULL or dangling gpio.
\* ------------------------------------------------------------------------
C1_NoAccessOutsideMapping == ~fault

\* ------------------------------------------------------------------------
\* C2  As claimed: every command text that fails to parse as
\*     <integer>:<word> (missing colon, non-integer pin, no trailing token)
\*     sets Last Error to exactly "Invalid input format" and writes no
\*     register.
\* ------------------------------------------------------------------------
T_InvalidNoNewline == Take(InvalidInputFormat, Len(InvalidInputFormat) - 1)

C2_AsClaimed ==
    \A c \in Tasks :
        Handled(c) /\ ~(HasPinAndColon(task[c].input) /\ HasToken(task[c].input))
        => /\ last_error = T_InvalidNoNewline
           /\ WritesOf(task[c].log) = <<>>

\* C2  As amended: every command text with no integer at its start, no colon
\*     right after the integer, or nothing at all after the colon sets Last
\*     Error to "Invalid input format" followed by a newline, and writes no
\*     register.
C2_InvalidInput ==
    \A c \in Tasks :
        Handled(c) /\ ~(HasPinAndColon(task[c].input)
                        /\ AfterColon(task[c].input) # <<>>)
        => /\ last_error = InvalidInputFormat
           /\ WritesOf(task[c].log) = <<>>

\* a command without a colon, one with a word for a pin and one that ends at
\* the colon have each been refused, over a stale message
C2_Witness ==
    /\ Handled(1)
    /\ task[1].input \in {T_garbage, <<"2", "1", ":">>, <<"1", " ", ":", "o">>}
    /\ task[1].before = T_UnknownDance
    /\ last_error = InvalidInputFormat

\* ------------------------------------------------------------------------
\* C3  As claimed: a command <pin>:<token> whose token (the parsed word of
\*     at most 9 characters) is none of on, off, blink sets Last Error to
\*     "Unknown action: <token>" and writes no register.
\* ------------------------------------------------------------------------
C3_AsClaimed ==
    \A c \in Tasks :
        /\ Handled(c)
        /\ HasPinAndColon(task[c].input)
        /\ AfterColon(task[c].input) # <<>>
        /\ TokenOf(task[c].input) \notin Actions
        => /\ last_error = UnknownActionPrefix \o TokenOf(task[c].input)
           /\ WritesOf(task[c].log) = <<>>

\* C3  As amended: such a command sets Last Error to
\*     "Unknown action: <token>" followed by a newline, and writes no
\*     register.
C3_UnknownAction ==
    \A c \in Tasks :
        /\ Handled(c)
        /\ HasPinAndColon(task[c].input)
        /\ AfterColon(task[c].input) # <<>>
        /\ TokenOf(task[c].input) \notin Actions
        => /\ last_error = UnknownActionPrefix \o TokenOf(task[c].input)
                             \o <<"\n">>
           /\ WritesOf(task[c].log) = <<>>

\* a word of more than nine characters has been refused under its first nine
C3_Witness ==
    /\ Handled(1)
    /\ Len(AfterColon(task[1].input)) > ACTION_WIDTH
    /\ Len(TokenOf(task[1].input)) = ACTION_WIDTH
    /\ last_error = UnknownActionPrefix \o TokenOf(task[1].input) \o <<"\n">>

\* ------------------------------------------------------------------------
\* C4  "<pin>:on" performs exactly one register write, of 1 << pin to the
\*     set register (0x1C), "<pin>:off" exactly one, of 1 << pin to the
\*     clear register (0x28); Last Error keeps the value it had.  (1 << pin
\*     is bit pin alone for a pin the register holds; for any other pin the
\*     value written is left open.)
\* ------------------------------------------------------------------------
C4_OnOffOneWrite ==
    \A c \in Tasks :
        /\ Handled(c)
        /\ HasPinAndColon(task[c].input)
        /\ TokenOf(task[c].input) \in {ActionOn, ActionOff}
        => LET p == PinOf(task[c].input)
               off == IF TokenOf(task[c].input) = ActionOn THEN 28 ELSE 40
               log == task[c].log
           IN  /\ Len(log) = 1
               /\ log[1][1] = "iowrite32"
               /\ log[1][2] = off
               /\ p \in 0..31 => log[1][3] = {p}
               /\ last_error = task[c].before

\* "21:on" has been carried out over a stale message, and the pin is high
C4_Witness ==
    /\ Handled(1)
    /\ task[1].input = T_21on
    /\ task[1].log = <<Wr(28, {21})>>
    /\ task[1].before = InvalidInputFormat
    /\ last_error = InvalidInputFormat
    /\ 21 \in lev

\* ------------------------------------------------------------------------
\* C5  A pin outside the 32 bits of the set/clear register (40, or a
\*     negative pin) is rejected with an explicit out-of-range error and
\*     causes no register write, for on, off and blink.  The driver does not
\*     do this: it writes the register with whatever 1 << pin yields.
\* ------------------------------------------------------------------------
\* a message other than the two the command grammar has
IsRangeError(e) ==
    /\ e # <<>>
    /\ e # InvalidInputFormat
    /\ Take(e, Len(UnknownActionPrefix)) # UnknownActionPrefix

C5_OutOfRangeRejected ==
    \A c \in Tasks :
        /\ Handled(c)
        /\ HasPinAndColon(task[c].input)
        /\ TokenOf(task[c].input) \in Actions
        /\ PinOf(task[c].input) \notin 0..31
        => /\ WritesOf(task[c].log) = <<>>
           /\ IsRangeError(last_error)

\* ------------------------------------------------------------------------
\* C6  Last Error is empty at startup, changes only in a step of a write
\*     whose command fails to parse or names an unknown action, and is left
\*     alone by a successful command, by a read, by open and by close: at
\*     every point of a command stream it is the message of the most recent
\*     failed command, or empty if none failed.
\* ------------------------------------------------------------------------
\* the command fails: it does not parse, or its word is no action
Failed(s) ==
    \/ ~(HasPinAndColon(s) /\ AfterColon(s) # <<>>)
    \/ TokenOf(s) \notin Actions

\* the message of a failed command
Message(s) ==
    IF ~(HasPinAndColon(s) /\ AfterColon(s) # <<>>) THEN InvalidInputFormat
    ELSE UnknownActionPrefix \o TokenOf(s) \o <<"\n">>

\* the message of the last failed command of a history, empty when none
\* failed
LastFailure(h) ==
    LET at == {k \in 1..Len(h) : Failed(h[k])}
    IN  IF at = {} THEN <<>>
        ELSE Message(h[CHOOSE k \in at : \A j \in at : j <= k])

\* the commands handled so far, the one about to return included
HandledSoFar ==
    IF Handled(1) THEN Append(hist, task[1].input) ELSE hist

C6_LastErrorLifecycle ==
    /\ [](last_error = LastFailure(HandledSoFar))
    /\ [][last_error' # last_error
            => \E c \in Tasks : /\ task[c].call = "write"
                                /\ Failed(task[c].input)
                                /\ task'[c] # task[c]]_vars

\* a failed command, then a successful one, then a read that delivers the
\* failed command's message
C6_Witness ==
    /\ Len(hist) = 2
    /\ Failed(hist[1])
    /\ ~Failed(hist[2])
    /\ last_error = Message(hist[1])
    /\ task[1].call = "read"
    /\ task[1].ret = Len(last_error)
    /\ task[1].outbuf = last_error

\* ------------------------------------------------------------------------
\* C7  read(buffer, max_len, offset) returns min(max_len, length - offset)
\*     bytes of Last Error from offset on and advances the offset by that
\*     count; it returns zero bytes, no error, when the offset is at or past
\*     the end of the text; so reads at the file's position from 0 on, with
\*     Last Error unchanged, deliver the text once, in order, and then EOF.
\* ------------------------------------------------------------------------
C7_ReadDelivers ==
    \A c \in Tasks :
        LET t == task[c]
            length == Len(last_error)
            count == IF t.req_off >= length THEN 0
                     ELSE Min(t.req_len, length - t.req_off)
        IN  /\ t.call \in {"read", "pread"} /\ t.req_off >= length
               => t.ret = 0 /\ t.outbuf = <<>>
            /\ t.call \in {"read", "pread"} /\ t.ret >= 0
               => /\ t.ret = count
                  /\ t.outbuf = SubSeq(last_error, t.req_off + 1,
                                       t.req_off + count)
            /\ t.call = "read" /\ t.ret >= 0 => t.f_pos = t.req_off + count
            /\ t.call = "read"
               => /\ t.got = SubSeq(last_error, 1, t.f_pos)
                  /\ t.ret = 0 /\ t.req_len > 0 => t.got = last_error

\* reads of at most MaxReadLen bytes have delivered a whole message, and the
\* next read has returned zero bytes
C7_Witness ==
    /\ task[1].call = "read"
    /\ last_error = T_UnknownDance
    /\ task[1].req_len \in 1..MaxReadLen
    /\ task[1].req_off = Len(last_error)
    /\ task[1].ret = 0
    /\ task[1].got = last_error

\* ------------------------------------------------------------------------
\* C8  blink(pin, duration_ms) performs exactly duration_ms / 100 complete
\*     cycles, each of them set pin, wait 50 ms, clear pin, wait 50 ms, and
\*     no other register write; a duration that is not positive performs no
\*     cycle; the "<pin>:blink" command performs exactly 50 cycles.  (The
\*     value written is bit pin alone for a pin the register holds; for any
\*     other pin it is left open, but the same in every write.)
\* ------------------------------------------------------------------------
\* n cycles with the value val
CyclesLog(val, n) ==
    [k \in 1..(4 * n) |->
        <<Wr(28, val), Sleep(50), Wr(40, val), Sleep(50)>>[((k - 1) % 4) + 1]]

\* the value the cycles of a log write for the pin
PinValue(pin, log) ==
    IF pin \in 0..31 \/ log = <<>> THEN {pin} ELSE log[1][3]

C8_BlinkCycles ==
    \A c \in Tasks :
        LET t == task[c]
        IN  /\ t.call = "gpio_blink" /\ t.pc = "idle"
               => t.log = CyclesLog(PinValue(t.pin, t.log),
                                    IF t.duration <= 0 THEN 0
                                    ELSE t.duration \div 100)
            /\ Handled(c) /\ HasPinAndColon(t.input)
                          /\ TokenOf(t.input) = ActionBlink
               => t.log = CyclesLog(PinValue(PinOf(t.input), t.log), 50)

\* gpio_blink(21, 250) has returned after two cycles, the pin low
C8_Witness ==
    /\ task[1].call = "gpio_blink"
    /\ task[1].pc = "idle"
    /\ task[1].pin = 21
    /\ task[1].duration = 250
    /\ Len(task[1].log) = 8
    /\ 21 \notin lev

\* ------------------------------------------------------------------------
\* C9  Only one command executes at a time: a write is processed fully
\*     before the next is accepted, so the dispatch paths of two writes
\*     never overlap, also when several callers write concurrently.  The
\*     driver takes no lock: two tasks run handle_input at once.
\* ------------------------------------------------------------------------
\* task c is inside led_ctrl_dev_write, past the copy of its command
InDispatch(c) ==
    task[c].pc \in {"handle_input", "invalid", "unknown", "gpio_set",
                    "gpio_clear", "blink_set", "blink_clear", "return"}

C9_OneCommandAtATime ==
    \A c \in Tasks : \A d \in Tasks \ {c} : ~(InDispatch(c) /\ InDispatch(d))

\* ------------------------------------------------------------------------
\* C10 Once a blink has made its first set it runs to completion: it is not
\*     cut short, and no command that arrived after that set has its set or
\*     clear take effect before the blink's last clear.  In the driver a
\*     second task's write runs beside the blink, and rmmod unmaps the
\*     registers under it.
\* ------------------------------------------------------------------------
\* task d, whose command arrived during the blink of task c that is still
\* under way, carries out its register write in this step
LaterWriteTakesEffect(c, d) ==
    /\ MidBlink(c)
    /\ c \in task[d].during
    /\ task[d].pc \in {"gpio_set", "gpio_clear", "blink_set", "blink_clear"}
    /\ gpio = "mapped"
    /\ task'[d].pc # task[d].pc

C10_BlinkUninterrupted ==
    [][\A c \in Tasks :
          /\ MidBlink(c) => task'[c].pc # "oops"
          /\ \A d \in Tasks \ {c} : ~LaterWriteTakesEffect(c, d)]_vars

\* ------------------------------------------------------------------------
\* C11 When led_ctrl_exit has completed, pins 21, 20 and 16 are all low,
\*     whatever commands preceded it and whatever command runs beside it.
\*     The driver clears the pins first and does not wait for the writes in
\*     flight: a blink on an open file sets its pin after exit's clear.
\* ------------------------------------------------------------------------
LedPins == {GPIO_PIN_21, GPIO_PIN_20, GPIO_PIN_16}

C11_AllLowAfterExit == mpc = "gone" => lev \cap LedPins = {}

\* ------------------------------------------------------------------------
\* C12 If mapping the registers fails during startup, initialization is
\*     aborted with the error returned, no pin is configured as output, and
\*     no pin operation (set, clear, blink, configure) is performed from
\*     then on, a write on the command channel included.  The driver leaves
\*     the device node in place, and a write still dispatches gpio_set.
\* ------------------------------------------------------------------------
MapFailed == init_ret = "-ENOMEM"

\* task c carries out a step of gpio_set, gpio_clear or gpio_blink
PinOperation(c) ==
    /\ TextPresent
    /\ task[c].pc \in {"gpio_set", "gpio_clear", "blink_set", "blink_clear"}
    /\ task'[c].pc # task[c].pc

C12_NoPinOperationAfterMapFailure ==
    /\ [](MapFailed => /\ mpc \in {"init_error", "init_failed"}
                       /\ \E r \in FselResets : fsel = [k \in 0..5 |-> r])
    /\ [][MapFailed => /\ \A c \in Tasks : ~PinOperation(c)
                       /\ hw' = hw]_vars

\* ------------------------------------------------------------------------
\* C13 A write whose copy from the caller faults returns -EFAULT, does not
\*     run the command interpreter, writes no register and leaves Last
\*     Error as it was; a read whose copy to the caller faults returns
\*     -EFAULT and leaves Last Error and the file offset as they were.
\* ------------------------------------------------------------------------
\* a call of task c returns -EFAULT in this step
FaultStep(c) == task'[c].ret = 0 - EFAULT /\ task'[c] # task[c]

C13_FaultLeavesState ==
    [][\A c \in Tasks :
          FaultStep(c) => /\ last_error' = last_error
                          /\ hw' = hw
                          /\ hist' = hist
                          /\ task'[c].pc = "idle"
                          /\ task'[c].log = task[c].log
                          /\ task'[c].f_pos = task[c].f_pos
                          /\ task'[c].got = task[c].got]_vars

\* after a refused command and a read of part of its message, a write has
\* faulted: the message and the offset are as the read left them
C13_Witness ==
    /\ task[1].call = "write"
    /\ task[1].ret = 0 - EFAULT
    /\ hist = <<T_garbage>>
    /\ last_error = InvalidInputFormat
    /\ task[1].f_pos = MaxReadLen
    /\ task[1].pc = "idle"

\* ------------------------------------------------------------------------
\* C14 Every write of len bytes whose copy succeeds returns min(len, 255),
\*     whether the command succeeded, failed to parse or named an unknown
\*     action: a refused command shows in Last Error only.
\* ------------------------------------------------------------------------
\* a write of task c has returned, its copy having succeeded
Returned(c) ==
    /\ task[c].call = "write"
    /\ task[c].pc = "idle"
    /\ task[c].ret # 0 - EFAULT

C14_WriteReturnsLength ==
    \A c \in Tasks :
        Returned(c) => task[c].ret = Min(task[c].req_len, 255)

\* a write of 300 bytes has returned 255, its command refused
C14_Witness ==
    /\ Returned(1)
    /\ task[1].req_len = 300
    /\ task[1].ret = 255
    /\ Failed(hist[1])
    /\ last_error = Message(hist[1])

\* ------------------------------------------------------------------------
\* C15 On a register bank with write-1-to-set / write-1-to-clear registers,
\*     for every pin of the valid range: set(pin) leaves the pin high,
\*     clear(pin) after it leaves the pin low, and the level of every other
\*     pin is as it was.
\* ------------------------------------------------------------------------
\* task c carries out gpio_set, or gpio_clear, in this step
SetStep(c) ==
    task[c].pc \in {"gpio_set", "blink_set"} /\ task'[c].pc # task[c].pc

ClearStep(c) ==
    task[c].pc \in {"gpio_clear", "blink_clear"} /\ task'[c].pc # task[c].pc

C15_SetClearNoCrosstalk ==
    [][\A c \in Tasks :
          task[c].pin \in RegisterPins
          => /\ SetStep(c) => lev' = lev \cup {task[c].pin}
             /\ ClearStep(c) => lev' = lev \ {task[c].pin}]_vars

\* pin 5 has been set and then cleared: it is low, and pins 21 and 16, high
\* before, are high
C15_Witness ==
    /\ task[1].call = "gpio_blink"
    /\ task[1].pc = "idle"
    /\ task[1].pin = 5
    /\ WritesOf(task[1].log) = <<Wr(28, {5}), Wr(40, {5})>>
    /\ lev = {GPIO_PIN_21, GPIO_PIN_16}

\* ------------------------------------------------------------------------
\* C16 set_gpio_direction_out is idempotent and local: for every pin and
\*     every prior content of function-select register pin / 10, after the
\*     call the 3-bit field at shift (pin % 10) * 3 holds 1, every other bit
\*     of the register and every other register is as before, and a second
\*     call on the same pin changes nothing.
\* ------------------------------------------------------------------------
\* task c carries out set_gpio_direction_out in this step
DirStep(c) ==
    /\ task'[c].call = "direction"
    /\ Len(task'[c].log) = Len(task[c].log) + 1

\* the bits of the field of a pin in its register
FieldOf(pin) ==
    {(pin % 10) * 3, (pin % 10) * 3 + 1, (pin % 10) * 3 + 2}

C16_DirectionOutLocal ==
    [][\A c \in Tasks :
          DirStep(c)
          => LET pin == task'[c].pin
                 reg == pin \div 10
             IN  /\ fsel'[reg] \cap FieldOf(pin) = {(pin % 10) * 3}
                 /\ fsel'[reg] \ FieldOf(pin) = fsel[reg] \ FieldOf(pin)
                 /\ \A k \in (DOMAIN fsel) \ {reg} : fsel'[k] = fsel[k]
                 /\ lev' = lev
                 /\ task[c].call = "direction" /\ task[c].pin = pin
                    => fsel' = fsel]_vars

\* pin 29 has been configured twice over a register of all ones: the second
\* call wrote what the first wrote, the field holds 1, and the fields of
\* pins 20 and 21 are as led_ctrl_init left them
C16_Witness ==
    /\ task[1].call = "direction"
    /\ task[1].pin = 29
    /\ Len(task[1].log) = 2
    /\ task[1].log[1] = task[1].log[2]
    /\ fsel[2] = (0..31) \ {1, 2, 4, 5, 28, 29}

\* ------------------------------------------------------------------------
\* C17 The function-select registers are written during initialization
\*     only: once startup has completed, no open, read, write (any command
\*     text, any parsed pin) or close writes a register other than the set
\*     register (0x1C) and the clear register (0x28), so pins 21, 20 and 16
\*     stay configured as outputs.
\* ------------------------------------------------------------------------
\* the offsets of the register writes in a log
OffsetsOf(log) == {WritesOf(log)[k][2] : k \in 1..Len(WritesOf(log))}

C17_FselOnlyAtInit ==
    init_ret = "0"
    => /\ \E r \in FselResets : fsel = Configured(r)
       /\ \A p \in LedPins : fsel[p \div 10] \cap FieldOf(p) = {(p % 10) * 3}
       /\ \A c \in Tasks : OffsetsOf(task[c].log) \subseteq {28, 40}

\* "-225:on" has been carried out: one write, to the set register, and the
\* function-select registers as led_ctrl_init left them
C17_Witness ==
    /\ Handled(1)
    /\ HasPinAndColon(task[1].input)
    /\ PinOf(task[1].input) = 0 - 225
    /\ OffsetsOf(task[1].log) = {28}
    /\ fsel = Configured({})

\* ------------------------------------------------------------------------
\* C18 Over the life of the module the register space is mapped exactly
\*     once, at startup, and unmapped exactly once, at shutdown, and an
\*     unmap never happens without a successful map before it, also not
\*     after a startup that failed.
\* ------------------------------------------------------------------------
\* led_ctrl_init has returned an error
InitReturnedError == init_ret \notin {"none", "0"}

C18_MappedOnceUnmappedOnce ==
    /\ [](/\ init_ret = "0" /\ mpc # "gone" /\ gpio = "unmapped"
             => mpc \in {"device_destroy", "class_destroy",
                         "unregister_chrdev"}
          /\ init_ret = "0" => gpio # "NULL"
          /\ mpc = "gone" => gpio = "unmapped"
          /\ InitReturnedError => gpio = "NULL")
    /\ [][gpio' # gpio
            => \/ gpio = "NULL" /\ gpio' = "mapped" /\ mpc = "gpio_init"
               \/ gpio = "mapped" /\ gpio' = "unmapped"
                                  /\ mpc = "gpio_exit"]_vars

\* the module has been loaded and unloaded: the registers were mapped by
\* gpio_init and unmapped by gpio_exit
C18_Witness ==
    /\ mpc = "gone"
    /\ init_ret = "0"
    /\ gpio = "unmapped"

\* ------------------------------------------------------------------------
\* C19 After a write of any command text of up to 255 bytes, Last Error
\*     holds a terminated text of at most 255 bytes, within its 256 bytes
\*     (the recorded action token has at most 9 characters), and a read
\*     returns no byte from beyond the stored message.
\* ------------------------------------------------------------------------
C19_LastErrorBounded ==
    /\ Len(last_error) <= 255
    /\ \A k \in 1..Len(last_error) : last_error[k] # NUL
    /\ Take(last_error, Len(UnknownActionPrefix)) = UnknownActionPrefix
       => Len(last_error) <= Len(UnknownActionPrefix) + 9 + 1
    /\ \A c \in Tasks :
          /\ task[c].pc \in {"unknown", "return"} => Len(task[c].action) <= 9
          /\ task[c].call \in {"read", "pread"} /\ task[c].outbuf # <<>>
             => /\ task[c].req_off + Len(task[c].outbuf) <= Len(last_error)
                /\ task[c].outbuf =
                     SubSeq(last_error, task[c].req_off + 1,
                            task[c].req_off + Len(task[c].outbuf))

\* a command of 255 bytes with a word of 253 characters has been refused:
\* the token recorded has 9 characters, the message 26
C19_Witness ==
    /\ Handled(1)
    /\ Len(task[1].input) = 255
    /\ Len(task[1].action) = 9
    /\ Len(last_error) = Len(UnknownActionPrefix) + 9 + 1

\* ------------------------------------------------------------------------
\* C20 Every failing path of led_ctrl_init returns with what the call had
\*     acquired released: when init returns an error, no character device,
\*     class or device node remains registered.  The path of a failed
\*     gpio_init returns with all three in place.
\* ------------------------------------------------------------------------
C20_InitFailureReleasesAll ==
    InitReturnedError
    => /\ ~chrdev
       /\ led_class # "valid"
       /\ led_device # "valid"

====
